---- MODULE Spec2Model ----
(***************************************************************************)
(* Request admission of go-alpha-vantage: the RateLimiter of               *)
(* ratelimiter.go (two int32 counters, two int32 limits, a goroutine with  *)
(* two reset tickers) under K concurrent callers of RateLimiter.Do.        *)
(*                                                                         *)
(* One step of a caller is one access to the shared counters (an atomic    *)
(* load, an atomic add) or the call of the work function; the goroutine    *)
(* started by init() contributes the two reset steps.                      *)
(*                                                                         *)
(* Around it: Request of connection.go (ConnSpec), the options of          *)
(* NewConnection (OptSpec), and the Client of av.go with buildRequestPath  *)
(* and its three operations (ClientSpec).                                  *)
(***************************************************************************)
EXTENDS Integers, Naturals, FiniteSets, Sequences, TLC

\* ---------------------------------------------------------------- bounds
\* Largest number of goroutines calling Do on the one tracker.
MaxCallers == 2
\* Largest number of Do calls started, over all callers.
MaxCalls == 4
\* Largest dayLimit / secLimit argument handed to NewRateLimiter.
MaxDay == 2
MaxSec == 2
\* Largest number of options handed to NewConnection.
MaxOpts == 3

\* ------------------------------------------------------- program constants
DefaultDayLimit == 2147483647
DefaultSecondLimit == 2147483647

MaxInt32 == 2147483647
MinInt32 == (-2147483647) - 1

ErrDailyLimitReached == "daily API limit has been reached"

HostDefault == "www.alphavantage.co"

\* Seconds of the default timeout.
TimeoutDefault == 30

\* The values a *http.Response and an error take in the model.  A work
\* function returns any of these pairs; none of its errors is the sentinel.
NilResponse == "nil"
NilError == "nil"
WorkResults ==
    { [res |-> "response", err |-> NilError],
      [res |-> NilResponse, err |-> "work error"] }

NoResult == [res |-> "none", err |-> "none"]

Callers == 1..MaxCallers

VARIABLES
    dayArg,     \* the dayLimit argument NewRateLimiter was called with
    secArg,     \* the secLimit argument NewRateLimiter was called with
    K,          \* the number of goroutines that call Do
    secLimit,   \* RateLimiter.secLimit
    secCount,   \* RateLimiter.secCount
    dayLimit,   \* RateLimiter.dayLimit
    dayCount,   \* RateLimiter.dayCount
    pc,         \* pc[c]: where caller c is inside Do ("idle": outside)
    workRet,    \* workRet[c]: the pair f() returned in c's current call
    result,     \* result[c]: the pair c's last finished call returned
    call,       \* call[c]: history of c's current (or last) call
    started,    \* number of Do calls started so far
    works,      \* number of executions of a work function so far
    secTicked,  \* the per-second ticker has fired since construction
    dayTicked,  \* the per-day ticker has fired since construction
    dayRejected, \* a call was rejected since the last per-day reset
    host,       \* connOptions.host of the Transport that owns the tracker
    client,     \* connOptions.client: a pointer into clients, or NilClient
    timeout,    \* connOptions.timeout, in seconds
    rl,         \* connOptions.rl: which tracker the Transport uses
    clients,    \* the http.Client objects: clients[p] is the Timeout of *p
    applied,    \* the options NewConnection has applied so far, in order
    apiKey,     \* Client.apiKey
    op,         \* the operation of the Client that was called last
    params,     \* the parameters it handed to buildRequestPath
    order,      \* the order in which range visited the keys of params
    endpoint,   \* the URL buildRequestPath returned
    cpc,        \* where the operation stands
    body,       \* response.Body: whether there is one, and its count of Close
    ret         \* what the operation returned

vars == << dayArg, secArg, K, secLimit, secCount, dayLimit, dayCount, pc,
           workRet, result, call, started, works, secTicked, dayTicked,
           dayRejected, host, client, timeout, rl, clients, applied,
           apiKey, op, params, order, endpoint, cpc, body, ret >>

limits == << dayArg, secArg, K, secLimit, dayLimit >>

\* What no step of the tracker or of a Request writes.
config == << host, client, timeout, rl, clients, applied,
            apiKey, op, params, order, endpoint, cpc, body, ret >>

\* History of one call: was it rejected by the day-limit check, how often
\* it ran the work function, what it added to each counter, whether the
\* work had returned at each add, and whether the pair it returned is the
\* pair its work returned.
\* For a call made by Transport.Request: the number of HTTP GETs it issued
\* and whether the context handed to Request has been cancelled.
NewCall == [rejected |-> FALSE, execs |-> 0, secAdds |-> 0, dayAdds |-> 0,
            addsAfterWork |-> TRUE, verbatim |-> FALSE,
            gets |-> 0, ctxDone |-> FALSE]

\* ------------------------------------------------------------ pure helpers
\* atomic.AddInt32: two's complement addition of 1 on 32 bits.
AddInt32(x) == IF x = MaxInt32 THEN MinInt32 ELSE x + 1

\* NewRateLimiter, ratelimiter.go:33-46: the limits of the tracker built
\* from the two arguments.  The second test assigns to dayLimit.  The
\* arguments are drawn from 0..MaxDay and 0..MaxSec, where the conversion
\* int32(x) of lines 42 and 44 keeps the value.
NewRateLimiter(dl, sl) ==
    LET d1 == IF dl = 0 THEN DefaultDayLimit ELSE dl
        d2 == IF sl = 0 THEN DefaultSecondLimit ELSE d1
    IN  [secLimit |-> sl, secCount |-> 0, dayLimit |-> d2, dayCount |-> 0]

\* ------------------------------------------------------------------- Init
InitTracker ==
    /\ dayArg \in 0..MaxDay
    /\ secArg \in 0..MaxSec
    /\ K \in 1..MaxCallers
    /\ LET l == NewRateLimiter(dayArg, secArg)
       IN  /\ secLimit = l.secLimit
           /\ secCount = l.secCount
           /\ dayLimit = l.dayLimit
           /\ dayCount = l.dayCount
    /\ pc = [c \in Callers |-> "idle"]
    /\ workRet = [c \in Callers |-> NoResult]
    /\ result = [c \in Callers |-> NoResult]
    /\ call = [c \in Callers |-> NewCall]
    /\ started = 0
    /\ works = 0
    /\ secTicked = FALSE
    /\ dayTicked = FALSE
    /\ dayRejected = FALSE

\* defaultConnOptions, connection.go:19-26.  &http.Client{} is a client
\* whose Timeout is the zero value; the timeout field holds the default.
NilClient == 0
DefaultClient == 1
CallerClient == 2
CallerTimeout == 10
DefaultTracker == "NewRateLimiter(0, 0)"

defaultConnOptions ==
    [client |-> DefaultClient, host |-> HostDefault,
     timeout |-> TimeoutDefault, rl |-> DefaultTracker]

\* The clients that exist before any option is applied: the one made by
\* defaultConnOptions and one that the caller owns and may inject.
InitClients == << 0, CallerTimeout >>

InitOptions ==
    /\ client = defaultConnOptions.client
    /\ timeout = defaultConnOptions.timeout
    /\ rl = defaultConnOptions.rl
    /\ clients = InitClients
    /\ applied = << >>

\* A Client on which no operation has been called.
NoParams == [k \in {} |-> ""]
NoEndpoint == [Path |-> "", RawQuery |-> << >>]
NoBody == [obtained |-> FALSE, closes |-> 0]

InitBuilder ==
    /\ op = "none"
    /\ params = NoParams
    /\ order = << >>
    /\ endpoint = NoEndpoint
    /\ cpc = "idle"
    /\ body = NoBody
    /\ ret = NoResult

\* The tracker on its own, as NewRateLimiter returns it.
Init ==
    /\ InitTracker
    /\ InitOptions
    /\ host = defaultConnOptions.host
    /\ InitBuilder
    /\ apiKey = ""

\* ------------------------------------------------------------ the tickers
\* Variant of SecTick that clears both counters.
SecTick_ResetsBoth ==
    /\ secCount' = 0
    /\ dayCount' = 0
    /\ secTicked' = TRUE
    /\ UNCHANGED << limits, config, dayRejected, pc, workRet, result, call, started, works,
                    dayTicked >>

\* Variant of SecTick with the two cases swapped: it clears dayCount.
SecTick_ResetsDay ==
    /\ dayCount' = 0
    /\ secTicked' = TRUE
    /\ UNCHANGED << limits, config, dayRejected, secCount, pc, workRet, result, call,
                    started, works, dayTicked >>

\* init(), case <-secTicker.C
SecTick ==
    /\ secCount' = 0
    /\ secTicked' = TRUE
    /\ UNCHANGED << limits, config, dayRejected, dayCount, pc, workRet, result, call, started,
                    works, dayTicked >>

\* init(), case <-dayTicker.C
DayTick ==
    /\ dayCount' = 0
    /\ dayTicked' = TRUE
    /\ dayRejected' = FALSE
    /\ UNCHANGED << limits, config, secCount, pc, workRet, result, call, started,
                    works, secTicked >>

\* --------------------------------------------------------------------- Do
\* Variant of DayCheck with the comparison off by one: the call is rejected
\* only when dayCount has passed dayLimit.
DayCheck_OffByOne(c) ==
    /\ c <= K
    /\ pc[c] = "idle"
    /\ started < MaxCalls
    /\ started' = started + 1
    /\ IF dayCount > dayLimit
       THEN /\ pc' = pc
            /\ dayRejected' = TRUE
            /\ result' = [result EXCEPT
                            ![c] = [res |-> NilResponse,
                                    err |-> ErrDailyLimitReached]]
            /\ call' = [call EXCEPT
                          ![c] = [NewCall EXCEPT !.rejected = TRUE]]
       ELSE /\ pc' = [pc EXCEPT ![c] = "wait"]
            /\ dayRejected' = dayRejected
            /\ result' = [result EXCEPT ![c] = NoResult]
            /\ call' = [call EXCEPT ![c] = NewCall]
    /\ UNCHANGED << limits, config, secCount, dayCount, workRet, works, secTicked,
                    dayTicked >>

\* Variant of DayCheck that counts the rejected call against the day.
DayCheck_CountsRejected(c) ==
    /\ c <= K
    /\ pc[c] = "idle"
    /\ started < MaxCalls
    /\ started' = started + 1
    /\ IF dayCount = dayLimit
       THEN /\ pc' = pc
            /\ dayRejected' = TRUE
            /\ dayCount' = AddInt32(dayCount)
            /\ result' = [result EXCEPT
                            ![c] = [res |-> NilResponse,
                                    err |-> ErrDailyLimitReached]]
            /\ call' = [call EXCEPT
                          ![c] = [NewCall EXCEPT
                                    !.rejected = TRUE,
                                    !.dayAdds = dayCount' - dayCount]]
       ELSE /\ pc' = [pc EXCEPT ![c] = "wait"]
            /\ dayRejected' = dayRejected
            /\ dayCount' = dayCount
            /\ result' = [result EXCEPT ![c] = NoResult]
            /\ call' = [call EXCEPT ![c] = NewCall]
    /\ UNCHANGED << limits, config, secCount, workRet, works, secTicked, dayTicked >>

\* Do is entered and loads dayCount: equal to dayLimit, the call returns
\* (nil, ErrDailyLimitReached); otherwise it goes on to the delay loop.
DayCheck(c) ==
    /\ c <= K
    /\ pc[c] = "idle"
    /\ started < MaxCalls
    /\ started' = started + 1
    /\ IF dayCount = dayLimit
       THEN /\ pc' = pc
            /\ dayRejected' = TRUE
            /\ result' = [result EXCEPT
                            ![c] = [res |-> NilResponse,
                                    err |-> ErrDailyLimitReached]]
            /\ call' = [call EXCEPT
                          ![c] = [NewCall EXCEPT !.rejected = TRUE]]
       ELSE /\ pc' = [pc EXCEPT ![c] = "wait"]
            /\ dayRejected' = dayRejected
            /\ result' = [result EXCEPT ![c] = NoResult]
            /\ call' = [call EXCEPT ![c] = NewCall]
    /\ UNCHANGED << limits, config, secCount, dayCount, workRet, works, secTicked,
                    dayTicked >>

\* Variant of SecCheck with the comparison off by one: the call is delayed
\* only when secCount has passed secLimit.
SecCheck_OffByOne(c) ==
    /\ c <= K
    /\ pc[c] = "wait"
    /\ pc' = [pc EXCEPT ![c] = IF secCount > secLimit THEN "sleep" ELSE "exec"]
    /\ UNCHANGED << limits, config, dayRejected, secCount, dayCount, workRet, result, call,
                    started, works, secTicked, dayTicked >>

\* Variant of SecCheck without the delay loop.
SecCheck_NoDelay(c) ==
    /\ c <= K
    /\ pc[c] = "wait"
    /\ pc' = [pc EXCEPT ![c] = "exec"]
    /\ UNCHANGED << limits, config, dayRejected, secCount, dayCount, workRet, result, call,
                    started, works, secTicked, dayTicked >>

\* Variant of SecCheck whose loop gives up once the caller's context is
\* cancelled: the call goes on without waiting for the count to change.
SecCheck_HonoursCancel(c) ==
    /\ c <= K
    /\ pc[c] = "wait"
    /\ pc' = [pc EXCEPT ![c] = IF secCount = secLimit /\ ~call[c].ctxDone
                               THEN "sleep"
                               ELSE "exec"]
    /\ UNCHANGED << limits, config, dayRejected, secCount, dayCount, workRet,
                    result, call, started, works, secTicked, dayTicked >>

\* The condition of the delay loop: one load of secCount.
SecCheck(c) ==
    /\ c <= K
    /\ pc[c] = "wait"
    /\ pc' = [pc EXCEPT ![c] = IF secCount = secLimit THEN "sleep" ELSE "exec"]
    /\ UNCHANGED << limits, config, dayRejected, secCount, dayCount, workRet, result, call,
                    started, works, secTicked, dayTicked >>

\* The body of the delay loop: time.Sleep(50ms), then the condition again.
Sleep(c) ==
    /\ c <= K
    /\ pc[c] = "sleep"
    /\ pc' = [pc EXCEPT ![c] = "wait"]
    /\ UNCHANGED << limits, config, dayRejected, secCount, dayCount, workRet, result, call,
                    started, works, secTicked, dayTicked >>

\* res, err := f()
Exec(c) ==
    /\ c <= K
    /\ pc[c] = "exec"
    /\ \E r \in WorkResults : workRet' = [workRet EXCEPT ![c] = r]
    /\ works' = works + 1
    /\ call' = [call EXCEPT ![c].execs = @ + 1]
    /\ pc' = [pc EXCEPT ![c] = "incSec"]
    /\ UNCHANGED << limits, config, dayRejected, secCount, dayCount, result, started, secTicked,
                    dayTicked >>

\* Variant of IncSec that counts only the works that returned no error.
IncSec_SkipOnError(c) ==
    /\ c <= K
    /\ pc[c] = "incSec"
    /\ secCount' = IF workRet[c].err = NilError
                   THEN AddInt32(secCount)
                   ELSE secCount
    /\ call' = [call EXCEPT ![c].secAdds = @ + (secCount' - secCount),
                            ![c].addsAfterWork = @ /\ call[c].execs = 1]
    /\ pc' = [pc EXCEPT ![c] = "incDay"]
    /\ UNCHANGED << limits, config, dayRejected, dayCount, workRet, result, started, works,
                    secTicked, dayTicked >>

\* atomic.AddInt32(&l.secCount, 1)
IncSec(c) ==
    /\ c <= K
    /\ pc[c] = "incSec"
    /\ secCount' = AddInt32(secCount)
    /\ call' = [call EXCEPT ![c].secAdds = @ + (secCount' - secCount),
                            ![c].addsAfterWork = @ /\ call[c].execs = 1]
    /\ pc' = [pc EXCEPT ![c] = "incDay"]
    /\ UNCHANGED << limits, config, dayRejected, dayCount, workRet, result, started, works,
                    secTicked, dayTicked >>

\* Variant of IncDay that returns the work's response with a nil error.
IncDay_DropsErr(c) ==
    /\ c <= K
    /\ pc[c] = "incDay"
    /\ dayCount' = AddInt32(dayCount)
    /\ result' = [result EXCEPT ![c] = [workRet[c] EXCEPT !.err = NilError]]
    /\ call' = [call EXCEPT ![c].dayAdds = @ + (dayCount' - dayCount),
                            ![c].addsAfterWork = @ /\ call[c].execs = 1,
                            ![c].verbatim = (result'[c] = workRet[c])]
    /\ workRet' = [workRet EXCEPT ![c] = NoResult]
    /\ pc' = [pc EXCEPT ![c] = "idle"]
    /\ UNCHANGED << limits, config, dayRejected, secCount, started, works, secTicked, dayTicked >>

\* atomic.AddInt32(&l.dayCount, 1); return res, err
IncDay(c) ==
    /\ c <= K
    /\ pc[c] = "incDay"
    /\ dayCount' = AddInt32(dayCount)
    /\ result' = [result EXCEPT ![c] = workRet[c]]
    /\ call' = [call EXCEPT ![c].dayAdds = @ + (dayCount' - dayCount),
                            ![c].addsAfterWork = @ /\ call[c].execs = 1,
                            ![c].verbatim = (result'[c] = workRet[c])]
    /\ workRet' = [workRet EXCEPT ![c] = NoResult]
    /\ pc' = [pc EXCEPT ![c] = "idle"]
    /\ UNCHANGED << limits, config, dayRejected, secCount, started, works, secTicked, dayTicked >>

Do(c) ==
    \/ DayCheck(c)
    \/ SecCheck(c)
    \/ Sleep(c)
    \/ Exec(c)
    \/ IncSec(c)
    \/ IncDay(c)

Next ==
    \/ SecTick
    \/ DayTick
    \/ \E c \in Callers : Do(c)

Spec == Init /\ [][Next]_vars

\* ------------------------------------------------------- Transport.Request
\* Request hands Do a closure: it sets scheme and host of the endpoint,
\* builds the GET request with http.NewRequest and hands it to the HTTP
\* client with the caller's context.  http.NewRequest fails when the URL
\* string does not parse, as with a configured host that opens a bracket
\* and never closes it; then the closure returns (nil, err) and the client
\* is not called.
BadHost == "[alphavantage"
Hosts == {HostDefault, BadHost}
UrlParses(h) == h # BadHost

ErrNewRequest == "parse error"
ErrCanceled == "context canceled"
ErrTransport == "transport error"

\* What the closure returns and how many GETs it hands to the client, for
\* caller c: the client fails a request whose context is already cancelled.
RequestResults(c) ==
    IF ~UrlParses(host)
    THEN { [ret |-> [res |-> NilResponse, err |-> ErrNewRequest], gets |-> 0] }
    ELSE IF call[c].ctxDone
    THEN { [ret |-> [res |-> NilResponse, err |-> ErrCanceled], gets |-> 1] }
    ELSE { [ret |-> [res |-> "response", err |-> NilError], gets |-> 1],
           [ret |-> [res |-> NilResponse, err |-> ErrTransport], gets |-> 1] }

\* Variant of RequestWork that tries the GET a second time when it failed.
RequestWork_Retry(c) ==
    /\ c <= K
    /\ pc[c] = "exec"
    /\ \E r \in RequestResults(c) :
          /\ workRet' = [workRet EXCEPT ![c] = r.ret]
          /\ call' = [call EXCEPT
                        ![c].execs = @ + 1,
                        ![c].gets = @ + (IF r.ret.err = ErrTransport
                                         THEN 2 * r.gets
                                         ELSE r.gets)]
    /\ works' = works + 1
    /\ pc' = [pc EXCEPT ![c] = "incSec"]
    /\ UNCHANGED << limits, config, dayRejected, secCount, dayCount, result,
                    started, secTicked, dayTicked >>

\* res, err := f(), f being the closure of Request.
RequestWork(c) ==
    /\ c <= K
    /\ pc[c] = "exec"
    /\ \E r \in RequestResults(c) :
          /\ workRet' = [workRet EXCEPT ![c] = r.ret]
          /\ call' = [call EXCEPT ![c].execs = @ + 1,
                                  ![c].gets = @ + r.gets]
    /\ works' = works + 1
    /\ pc' = [pc EXCEPT ![c] = "incSec"]
    /\ UNCHANGED << limits, config, dayRejected, secCount, dayCount, result,
                    started, secTicked, dayTicked >>

\* The caller's context is cancelled while its Request is in the delay loop
\* of Do (at its condition or asleep).
Cancel(c) ==
    /\ c <= K
    /\ pc[c] \in {"wait", "sleep"}
    /\ ~call[c].ctxDone
    /\ call' = [call EXCEPT ![c].ctxDone = TRUE]
    /\ UNCHANGED << limits, config, dayRejected, secCount, dayCount, pc,
                    workRet, result, started, works, secTicked, dayTicked >>

Request(c) ==
    \/ DayCheck(c)
    \/ SecCheck(c)
    \/ Sleep(c)
    \/ RequestWork(c)
    \/ IncSec(c)
    \/ IncDay(c)
    \/ Cancel(c)

\* A Transport with a configured host and its tracker: the default one,
\* NewRateLimiter(0, 0), or an injected one with a limit of 1 call per
\* second, per day or both, under which Requests wait and are rejected.
ConnInit ==
    /\ InitTracker
    /\ InitOptions
    /\ InitBuilder
    /\ apiKey = ""
    /\ dayArg \in {0, 1}
    /\ secArg \in {0, 1}
    /\ host \in Hosts

ConnNext ==
    \/ SecTick
    \/ DayTick
    \/ \E c \in Callers : Request(c)

ConnSpec == ConnInit /\ [][ConnNext]_vars

\* ------------------------------------------------------------ NewConnection
\* The options a caller can hand to NewConnection, each with its argument.
CustomHost == "localhost:8080"
Options ==
    [kind : {"WithHost"}, arg : {CustomHost, BadHost}]
      \cup [kind : {"WithRateLimiter"}, arg : {"tracker A", "tracker B"}]
      \cup [kind : {"WithTimeout"}, arg : {5, 60}]
      \cup [kind : {"WithHTTPClient"}, arg : {NilClient, CallerClient}]

tracker == << dayArg, secArg, K, secLimit, secCount, dayLimit, dayCount, pc,
              workRet, result, call, started, works, secTicked, dayTicked,
              dayRejected >>

builder == << apiKey, op, params, order, endpoint, cpc, body, ret >>

\* One turn of the loop of NewConnection: opt.apply(&av.copts).
Applies(o) ==
    /\ Len(applied) < MaxOpts
    /\ applied' = Append(applied, o)
    /\ UNCHANGED << tracker, builder >>

\* WithHost: o.host = host
WithHost(h) ==
    /\ Applies([kind |-> "WithHost", arg |-> h])
    /\ host' = h
    /\ UNCHANGED << client, timeout, rl, clients >>

\* WithRateLimiter: o.rl = rl
WithRateLimiter(r) ==
    /\ Applies([kind |-> "WithRateLimiter", arg |-> r])
    /\ rl' = r
    /\ UNCHANGED << host, client, timeout, clients >>

\* WithTimeout: a nil o.client is replaced by a new client; then
\* o.client.Timeout = timeout, a write to the client o.client points to.
WithTimeout(t) ==
    /\ Applies([kind |-> "WithTimeout", arg |-> t])
    /\ IF client = NilClient
       THEN /\ clients' = Append(clients, t)
            /\ client' = Len(clients) + 1
       ELSE /\ clients' = [clients EXCEPT ![client] = t]
            /\ client' = client
    /\ UNCHANGED << host, timeout, rl >>

\* WithHTTPClient: o.client = client
WithHTTPClient(p) ==
    /\ Applies([kind |-> "WithHTTPClient", arg |-> p])
    /\ client' = p
    /\ UNCHANGED << host, timeout, rl, clients >>

\* conn.Client(), and the timeout under which Request runs its HTTP call:
\* the Timeout of that client (0: none); a nil client cannot run one.
Client == client
RequestTimeout == IF Client = NilClient THEN "nil client" ELSE clients[Client]

\* NewConnection: the defaults, the tracker being NewRateLimiter(0, 0).
OptInit ==
    /\ InitTracker
    /\ dayArg = 0 /\ secArg = 0 /\ K = 1
    /\ InitOptions
    /\ host = defaultConnOptions.host
    /\ InitBuilder
    /\ apiKey = ""

OptNext ==
    \/ \E h \in {CustomHost, BadHost} : WithHost(h)
    \/ \E r \in {"tracker A", "tracker B"} : WithRateLimiter(r)
    \/ \E t \in {5, 60} : WithTimeout(t)
    \/ \E p \in {NilClient, CallerClient} : WithHTTPClient(p)

OptSpec == OptInit /\ [][OptNext]_vars

\* The argument of the last option of a kind among those applied, or the
\* default when there is none.
LastArg(kind, default) ==
    LET at == { i \in 1..Len(applied) : applied[i].kind = kind }
    IN  IF at = {} THEN default
        ELSE applied[CHOOSE i \in at : \A j \in at : j <= i].arg

\* ------------------------------------------------------------------ Client
\* The keys of the query, av.go:17-23, and sort.Strings on them: KeyRank[k]
\* is the place of k among all of them in lexicographic order.
queryApiKey == "apikey"
queryDataType == "datatype"
queryOutputSize == "outputsize"
querySymbol == "symbol"
queryMarket == "market"
queryEndpoint == "function"
queryInterval == "interval"
valueCompact == "compact"
valueJson == "csv"
valueDigitalCurrencyEndpoint == "DIGITAL_CURRENCY_INTRADAY"
pathQuery == "query"

KeyRank ==
    [k \in {queryApiKey, queryDataType, queryEndpoint, queryInterval,
            queryMarket, queryOutputSize, querySymbol} |->
        CASE k = queryApiKey -> 1
          [] k = queryDataType -> 2
          [] k = queryEndpoint -> 3
          [] k = queryInterval -> 4
          [] k = queryMarket -> 5
          [] k = queryOutputSize -> 6
          [] k = querySymbol -> 7]

\* url.QueryEscape on the values used here: a space becomes "+", letters,
\* digits, "_" and "." stay.
SpacedSymbol == "BRK B"
QueryEscape(v) == IF v = SpacedSymbol THEN "BRK+B" ELSE v

\* url.Values holding one value per key, which is all that Set leaves.
\* Set(q, k, v): the value of k becomes v, whatever it was.
Set(q, k, v) == [x \in DOMAIN q \cup {k} |-> IF x = k THEN v ELSE q[x]]

RECURSIVE SortedKeys(_)
SortedKeys(S) ==
    IF S = {} THEN << >>
    ELSE LET m == CHOOSE k \in S : \A j \in S : KeyRank[k] <= KeyRank[j]
         IN  << m >> \o SortedKeys(S \ {m})

\* Values.Encode: "key=value" for each key, the keys sorted, the values
\* escaped.  The "&" between them is written by String.
Encode(q) ==
    LET keys == SortedKeys(DOMAIN q)
    IN  [i \in 1..Len(keys) |->
            [key |-> keys[i], value |-> QueryEscape(q[keys[i]])]]

\* for key, value := range params { query.Set(key, value) }, the keys
\* visited in the order ord, from its i-th on.
RECURSIVE SetAll(_, _, _, _)
SetAll(q, p, ord, i) ==
    IF i > Len(ord) THEN q
    ELSE SetAll(Set(q, ord[i], p[ord[i]]), p, ord, i + 1)

\* Variant of buildRequestPath that sets the base parameters last.
buildRequestPath_DefaultsLast(key, p, ord) ==
    LET q0 == SetAll(NoParams, p, ord, 1)
        q1 == Set(q0, queryApiKey, key)
        q2 == Set(q1, queryDataType, valueJson)
        q3 == Set(q2, queryOutputSize, valueCompact)
    IN  [Path |-> pathQuery, RawQuery |-> Encode(q3)]

\* buildRequestPath of a Client with the API key `key`.
buildRequestPath(key, p, ord) ==
    LET q1 == Set(NoParams, queryApiKey, key)
        q2 == Set(q1, queryDataType, valueJson)
        q3 == Set(q2, queryOutputSize, valueCompact)
        query == SetAll(q3, p, ord, 1)
    IN  [Path |-> pathQuery, RawQuery |-> Encode(query)]

\* URL.String for a URL with a path and a query only.
RECURSIVE JoinQuery(_, _)
JoinQuery(pairs, i) ==
    IF i > Len(pairs) THEN ""
    ELSE (IF i = 1 THEN "" ELSE "&")
           \o pairs[i].key \o "=" \o pairs[i].value \o JoinQuery(pairs, i + 1)

String(u) ==
    IF u.RawQuery = << >> THEN u.Path
    ELSE u.Path \o "?" \o JoinQuery(u.RawQuery, 1)

\* The orders in which range can visit the keys of a map.
Orders(p) ==
    { ord \in [1..Cardinality(DOMAIN p) -> DOMAIN p] :
        \A i, j \in DOMAIN ord : i # j => ord[i] # ord[j] }

\* The names the enumerations hand to the query.
keyName(x) ==
    CASE x = "TimeSeriesDaily" -> "TIME_SERIES_DAILY"
      [] x = "TimeSeriesWeekly" -> "TIME_SERIES_WEEKLY"
      [] x = "timeSeriesIntraday" -> "TIME_SERIES_INTRADAY"
      [] x = "TimeIntervalOneMinute" -> "1min"
      [] x = "TimeIntervalFiveMinute" -> "5min"

\* The arguments the operations are called with.
ApiKeys == {"test", "demo"}
Symbols == {"TEST", SpacedSymbol}
TimeSeriesSet == {"TimeSeriesDaily", "TimeSeriesWeekly"}
TimeIntervals == {"TimeIntervalOneMinute", "TimeIntervalFiveMinute"}
Digitals == {"BTC", "ETH"}
Physicals == {"USD", "EUR"}
Operations == {"StockTimeSeriesIntraday", "StockTimeSeries", "DigitalCurrency"}

\* Maps handed to buildRequestPath by a caller inside the package: any of
\* the base keys and the symbol, each with a value of the caller's.
CallerValue ==
    [k \in {queryApiKey, queryDataType, queryOutputSize, querySymbol} |->
        CASE k = queryApiKey -> "other"
          [] k = queryDataType -> "json"
          [] k = queryOutputSize -> "full"
          [] k = querySymbol -> "TEST"]
CallerParams == { [k \in S |-> CallerValue[k]] : S \in SUBSET DOMAIN CallerValue }

\* A call of buildRequestPath on its own.
BuildRequestPath(p) ==
    /\ cpc \in {"idle", "done"}
    /\ \E ord \in Orders(p) :
          /\ order' = ord
          /\ endpoint' = buildRequestPath(apiKey, p, ord)
    /\ op' = "buildRequestPath"
    /\ params' = p
    /\ cpc' = "done"
    /\ body' = NoBody
    /\ ret' = NoResult
    /\ UNCHANGED << tracker, host, client, timeout, rl, clients, applied, apiKey >>

\* The first statement of an operation: the endpoint is built.
Begin(name, p) ==
    /\ cpc \in {"idle", "done"}
    /\ \E ord \in Orders(p) :
          /\ order' = ord
          /\ endpoint' = buildRequestPath(apiKey, p, ord)
    /\ op' = name
    /\ params' = p
    /\ cpc' = "request"
    /\ body' = NoBody
    /\ ret' = NoResult
    /\ UNCHANGED << tracker, host, client, timeout, rl, clients, applied, apiKey >>

StockTimeSeriesIntraday(timeInterval, symbol) ==
    Begin("StockTimeSeriesIntraday",
          (queryEndpoint :> keyName("timeSeriesIntraday"))
            @@ (queryInterval :> keyName(timeInterval))
            @@ (querySymbol :> symbol))

StockTimeSeries(timeSeries, symbol) ==
    Begin("StockTimeSeries",
          (queryEndpoint :> keyName(timeSeries)) @@ (querySymbol :> symbol))

DigitalCurrency(digital, physical) ==
    Begin("DigitalCurrency",
          (queryEndpoint :> valueDigitalCurrencyEndpoint)
            @@ (querySymbol :> digital)
            @@ (queryMarket :> physical))

\* What c.conn.Request can return: a response with its body, an error and
\* no response, or, from an http.Client whose redirect check failed, an
\* error with a response whose body the client has already closed.
ErrRedirect == "redirect error"
ConnResults ==
    { [err |-> NilError, body |-> [obtained |-> TRUE, closes |-> 0]],
      [err |-> ErrTransport, body |-> NoBody],
      [err |-> ErrRedirect, body |-> [obtained |-> TRUE, closes |-> 1]] }

\* response, err := c.conn.Request(endpoint); if err != nil { return nil, err }
ConnRequest ==
    /\ cpc = "request"
    /\ \E r \in ConnResults :
          /\ body' = r.body
          /\ IF r.err # NilError
             THEN /\ ret' = [res |-> NilResponse, err |-> r.err]
                  /\ cpc' = "done"
             ELSE /\ ret' = ret
                  /\ cpc' = "parse"
    /\ UNCHANGED << tracker, host, client, timeout, rl, clients, applied,
                    apiKey, op, params, order, endpoint >>

\* The parser reads the body and gives the records or its error; it does
\* not close what it reads.
ErrParse == "parse failure"
ParseResults ==
    { [res |-> "records", err |-> NilError],
      [res |-> NilResponse, err |-> ErrParse] }

\* return parseTimeSeriesData(response.Body): the results are evaluated,
\* the deferred call has yet to run.
ParseBody ==
    /\ cpc = "parse"
    /\ \E r \in ParseResults : ret' = r
    /\ cpc' = "defer"
    /\ UNCHANGED << tracker, host, client, timeout, rl, clients, applied,
                    apiKey, op, params, order, endpoint, body >>

\* Variant of CloseBody that closes the body of a parsed response only.
CloseBody_OnlyOnSuccess ==
    /\ cpc = "defer"
    /\ body' = IF ret.err = NilError
               THEN [body EXCEPT !.closes = body.closes + 1]
               ELSE body
    /\ cpc' = "done"
    /\ UNCHANGED << tracker, host, client, timeout, rl, clients, applied,
                    apiKey, op, params, order, endpoint, ret >>

\* defer response.Body.Close(), run as the operation returns.
CloseBody ==
    /\ cpc = "defer"
    /\ body' = [body EXCEPT !.closes = body.closes + 1]
    /\ cpc' = "done"
    /\ UNCHANGED << tracker, host, client, timeout, rl, clients, applied,
                    apiKey, op, params, order, endpoint, ret >>

\* NewClient(apiKey) on the default connection.
ClientInit ==
    /\ InitTracker
    /\ dayArg = 0 /\ secArg = 0 /\ K = 1
    /\ InitOptions
    /\ host = defaultConnOptions.host
    /\ InitBuilder
    /\ apiKey \in ApiKeys

ClientNext ==
    \/ \E p \in CallerParams : BuildRequestPath(p)
    \/ \E i \in TimeIntervals, s \in Symbols : StockTimeSeriesIntraday(i, s)
    \/ \E t \in TimeSeriesSet, s \in Symbols : StockTimeSeries(t, s)
    \/ \E d \in Digitals, ph \in Physicals : DigitalCurrency(d, ph)
    \/ ConnRequest
    \/ ParseBody
    \/ CloseBody

ClientSpec == ClientInit /\ [][ClientNext]_vars

\* One sequential caller, as in TestRateLimiter_Do.  The ticker goroutine
\* and the caller's goroutine are both scheduled for ever: the ticker fires
\* every second, and a caller inside Do takes its next step.  Nothing makes
\* a caller start another call.
InitSingle == Init /\ K = 1

Fairness ==
    /\ WF_vars(SecTick)
    /\ WF_vars(SecCheck(1))
    /\ WF_vars(Sleep(1))
    /\ WF_vars(Exec(1))
    /\ WF_vars(IncSec(1))
    /\ WF_vars(IncDay(1))

FairSpec == InitSingle /\ [][Next]_vars /\ Fairness

TypeOK ==
    /\ dayArg \in 0..MaxDay
    /\ secArg \in 0..MaxSec
    /\ K \in 1..MaxCallers
    /\ secLimit \in Int /\ dayLimit \in Int
    /\ secCount \in Int /\ dayCount \in Int
    /\ pc \in [Callers -> {"idle", "wait", "sleep", "exec", "incSec", "incDay"}]
    /\ started \in 0..MaxCalls
    /\ works \in 0..MaxCalls

\* A call of caller c has returned and nothing of c is in flight.
Returned(c) == c <= K /\ pc[c] = "idle" /\ result[c] # NoResult

\* ----------------------------------------------------------------- claims

\* C1: for a tracker built with secLimit = 0, no call to Do ever waits in
\* the per-second delay loop.
C1_NoDelayWhenSecZero ==
    secArg = 0 => \A c \in Callers : pc[c] # "sleep"

\* C2: NewRateLimiter resolves each limit on its own: dayLimit is the
\* argument when it is > 0 and the max-int32 sentinel when it is 0, the same
\* for secLimit, and both counters are 0 before any call or reset.
C2_LimitsResolved ==
    /\ dayLimit = (IF dayArg = 0 THEN DefaultDayLimit ELSE dayArg)
    /\ secLimit = (IF secArg = 0 THEN DefaultSecondLimit ELSE secArg)
    /\ (started = 0 /\ ~secTicked /\ ~dayTicked) => (secCount = 0 /\ dayCount = 0)

\* C3: one sequential caller, dayLimit D >= 1, secLimit >= 1, no per-day
\* reset: each of the first D calls has run its work when it returns, every
\* later call returns ErrDailyLimitReached, and the number of work
\* executions never passes D.
C3_DayLimitStall ==
    (K = 1 /\ dayArg >= 1 /\ secArg >= 1 /\ ~dayTicked) =>
        /\ works <= dayArg
        /\ Returned(1) =>
             IF started <= dayArg
             THEN ~call[1].rejected /\ works = started
             ELSE /\ call[1].rejected
                  /\ result[1].err = ErrDailyLimitReached
                  /\ works = dayArg

C3_Witness ==
    /\ K = 1 /\ dayArg = 2 /\ secArg >= 1 /\ ~dayTicked
    /\ started = dayArg + 1
    /\ Returned(1)
    /\ result[1].err = ErrDailyLimitReached
    /\ works = dayArg

\* C4: one sequential caller, secLimit N >= 1, no per-second reset since
\* construction: a call is in the delay loop only once N works have run,
\* and no more than N works run.
C4_SecLimitDelay ==
    (K = 1 /\ secArg >= 1 /\ ~secTicked) =>
        /\ works <= secArg
        /\ pc[1] = "sleep" => works = secArg

C4_Witness ==
    /\ K = 1 /\ secArg = 2 /\ ~secTicked
    /\ works = secArg
    /\ pc[1] = "sleep"

\* C5: in every reachable state, with any number of concurrent callers,
\* 0 <= secCount <= secLimit and 0 <= dayCount <= dayLimit.
C5_CountsWithinLimits ==
    /\ 0 <= secCount /\ secCount <= secLimit
    /\ 0 <= dayCount /\ dayCount <= dayLimit

\* C6: one sequential caller, secLimit = perSec >= 1, any interleaving of
\* the two resets: secCount is never greater than perSec.
C6_SecCountBounded ==
    (K = 1 /\ secArg >= 1) => secCount <= secArg

C6_Witness ==
    /\ K = 1 /\ secArg = 2 /\ secTicked /\ dayTicked
    /\ secCount = secArg
    /\ pc[1] = "sleep"

\* C7: K concurrent callers, no per-day reset: dayCount never exceeds
\* dayLimit by more than K.
C7_DayOvershootBounded ==
    ~dayTicked => dayCount - dayLimit <= K

\* C8: a call that returned ErrDailyLimitReached did not run its work,
\* returned a nil response and added nothing to secCount or dayCount.
C8_RejectedCallDoesNothing ==
    \A c \in Callers :
        (Returned(c) /\ result[c].err = ErrDailyLimitReached) =>
            /\ result[c].res = NilResponse
            /\ call[c].execs = 0
            /\ call[c].secAdds = 0
            /\ call[c].dayAdds = 0

C8_Witness ==
    \E c \in Callers :
        /\ Returned(c)
        /\ result[c].err = ErrDailyLimitReached
        /\ K = 2 /\ dayCount = dayLimit /\ works = dayLimit

\* C9: a call the day-limit check did not reject has, when it returns, run
\* its work exactly once and added exactly 1 to secCount and 1 to dayCount,
\* both after the work returned, whatever the work returned; at no moment
\* has a call run its work twice or added more than 1.
C9_WorkOnceThenCount ==
    \A c \in Callers :
        /\ call[c].execs <= 1
        /\ call[c].secAdds \in {0, 1}
        /\ call[c].dayAdds \in {0, 1}
        /\ call[c].addsAfterWork
        /\ (Returned(c) /\ ~call[c].rejected) =>
              /\ call[c].execs = 1
              /\ call[c].secAdds = 1
              /\ call[c].dayAdds = 1

C9_Witness ==
    \E c \in Callers :
        /\ Returned(c) /\ ~call[c].rejected
        /\ result[c].err = "work error"
        /\ call[c].execs = 1 /\ call[c].secAdds = 1 /\ call[c].dayAdds = 1

\* C10: what Do returns is (nil, ErrDailyLimitReached), and then the
\* day-limit check failed, or it is the very pair the work returned.
C10_ResultIsSentinelOrWorks ==
    \A c \in Callers :
        Returned(c) =>
            \/ /\ call[c].rejected
               /\ result[c] = [res |-> NilResponse, err |-> ErrDailyLimitReached]
            \/ /\ ~call[c].rejected
               /\ call[c].verbatim
               /\ result[c] \in WorkResults

C10_Witness ==
    \E c \in Callers :
        /\ Returned(c) /\ ~call[c].rejected
        /\ result[c] = [res |-> NilResponse, err |-> "work error"]
        /\ \E d \in Callers :
              d # c /\ Returned(d) /\ result[d].err = ErrDailyLimitReached

\* C16: K >= 2 concurrent callers, secLimit N >= 1, no per-second reset:
\* secCount never exceeds N + K.
C16_SecOvershootBounded ==
    (K >= 2 /\ secArg >= 1 /\ ~secTicked) => secCount - secLimit <= K

\* C19: a reset step (no caller moves) either sets secCount to 0 and leaves
\* dayCount alone, or sets dayCount to 0 and leaves secCount alone; no step
\* at all changes secLimit or dayLimit.
C19_ResetsFrame ==
    [][ /\ secLimit' = secLimit
        /\ dayLimit' = dayLimit
        /\ (pc' = pc /\ call' = call /\ started' = started) =>
              \/ secCount' = 0 /\ dayCount' = dayCount
              \/ dayCount' = 0 /\ secCount' = secCount ]_vars

C19_Witness ==
    /\ secTicked /\ dayTicked
    /\ dayCount = 0 /\ secCount > 0
    /\ secLimit = secArg /\ secArg >= 1
    /\ \E c \in Callers : pc[c] = "incDay"

\* C17: once a call has returned ErrDailyLimitReached, every call that
\* starts before the next per-day reset returns ErrDailyLimitReached too:
\* a step that starts a call after a rejection of the current day rejects it.
C17_RejectionStable ==
    [][ (dayRejected /\ started' = started + 1) =>
            /\ pc' = pc
            /\ \E c \in Callers :
                  /\ call'[c].rejected
                  /\ result'[c].err = ErrDailyLimitReached ]_vars

\* C18: secLimit >= 1, one caller, the per-second ticker and the caller's
\* polling step scheduled for ever: a call that passed the day-limit check
\* runs its work and returns; and as long as secCount stays equal to
\* secLimit (no per-second reset) a caller in the delay loop stays in it.
C18_WaitEndsWithReset ==
    /\ [](pc[1] = "wait" /\ secArg >= 1 =>
            <>(Returned(1) /\ ~call[1].rejected /\ call[1].execs = 1))
    /\ [][ (/\ secArg >= 1
            /\ pc[1] \in {"wait", "sleep"}
            /\ secCount = secLimit
            /\ secCount' = secLimit) => pc'[1] \in {"wait", "sleep"} ]_vars

C18_Witness ==
    /\ K = 1 /\ secArg = 1 /\ secLimit = 1
    /\ works = 2
    /\ Returned(1) /\ ~call[1].rejected
    /\ secCount = secLimit

\* C11 (as stated): no Request issues more than one GET; a Request that
\* returned issued exactly one when the tracker admitted it and none when
\* the tracker rejected it, and then it returned ErrDailyLimitReached.
C11_OneGetPerRequest ==
    \A c \in Callers :
        /\ call[c].gets <= 1
        /\ Returned(c) =>
              IF call[c].rejected
              THEN call[c].gets = 0 /\ result[c].err = ErrDailyLimitReached
              ELSE call[c].gets = 1

\* C11 (amended): as above, but an admitted Request issues its one GET
\* only when http.NewRequest succeeds; when it fails the Request issues
\* none and returns that error.  A failed GET is not tried again.
C11_OneGetPerBuiltRequest ==
    \A c \in Callers :
        /\ call[c].gets <= 1
        /\ call[c].execs <= 1
        /\ Returned(c) =>
              IF call[c].rejected
              THEN call[c].gets = 0 /\ result[c].err = ErrDailyLimitReached
              ELSE IF UrlParses(host)
              THEN call[c].gets = 1
              ELSE call[c].gets = 0 /\ result[c].err = ErrNewRequest

C11_Witness ==
    \E c, d \in Callers :
        /\ Returned(c) /\ ~call[c].rejected
        /\ result[c].err = ErrTransport /\ call[c].gets = 1
        /\ Returned(d) /\ call[d].rejected /\ call[d].gets = 0

\* C20 (as stated): cancelling the context of a Request in the delay loop
\* does not move it; a cancelled Request leaves the loop only by finding
\* secCount different from secLimit; and when it returns it has handed one
\* GET with the cancelled context to the client, returns that call's error
\* and has added 1 to each counter.
C20_CancelNotHonoured ==
    [][ \A c \in Callers :
          /\ (~call[c].ctxDone /\ call'[c].ctxDone) => pc'[c] = pc[c]
          /\ (/\ call[c].ctxDone
              /\ pc[c] \in {"wait", "sleep"}
              /\ pc'[c] \notin {"wait", "sleep"}) =>
                 (pc'[c] = "exec" /\ secCount # secLimit)
          /\ (call[c].ctxDone /\ pc[c] = "incDay" /\ pc'[c] = "idle") =>
                 /\ call'[c].gets = 1
                 /\ result'[c] = [res |-> NilResponse, err |-> ErrCanceled]
                 /\ call'[c].secAdds = 1
                 /\ call'[c].dayAdds = 1 ]_vars

\* C20 (amended): the same, but the GET is attempted, and its error
\* returned, only when http.NewRequest succeeds; when it fails the Request
\* returns that error without a GET.  The counters are incremented in both
\* cases.
C20_CancelNotHonouredBuilt ==
    [][ \A c \in Callers :
          /\ (~call[c].ctxDone /\ call'[c].ctxDone) => pc'[c] = pc[c]
          /\ (/\ call[c].ctxDone
              /\ pc[c] \in {"wait", "sleep"}
              /\ pc'[c] \notin {"wait", "sleep"}) =>
                 (pc'[c] = "exec" /\ secCount # secLimit)
          /\ (call[c].ctxDone /\ pc[c] = "incDay" /\ pc'[c] = "idle") =>
                 /\ IF UrlParses(host)
                    THEN /\ call'[c].gets = 1
                         /\ result'[c] = [res |-> NilResponse,
                                          err |-> ErrCanceled]
                    ELSE /\ call'[c].gets = 0
                         /\ result'[c] = [res |-> NilResponse,
                                          err |-> ErrNewRequest]
                 /\ call'[c].secAdds = 1
                 /\ call'[c].dayAdds = 1 ]_vars

C20_Witness ==
    \E c \in Callers :
        /\ Returned(c)
        /\ call[c].ctxDone
        /\ result[c].err = ErrCanceled
        /\ call[c].gets = 1 /\ call[c].secAdds = 1 /\ call[c].dayAdds = 1
        /\ secArg = 1 /\ secTicked

\* C12: after NewConnection has applied its options in order, host, rate
\* limiter, HTTP client and timeout each hold what the last option for that
\* field set, or the default when no option is for the field.
C12_LastOptionWins ==
    /\ host = LastArg("WithHost", defaultConnOptions.host)
    /\ rl = LastArg("WithRateLimiter", defaultConnOptions.rl)
    /\ client = LastArg("WithHTTPClient", defaultConnOptions.client)
    /\ timeout = LastArg("WithTimeout", defaultConnOptions.timeout)
    /\ client # NilClient =>
          RequestTimeout = LastArg("WithTimeout", clients[client])

\* C13: with no timeout option and no injected HTTP client, the client that
\* Request uses runs its HTTP calls under the default timeout of 30 seconds.
C13_DefaultTimeoutInEffect ==
    (\A i \in 1..Len(applied) :
         applied[i].kind \notin {"WithTimeout", "WithHTTPClient"}) =>
        RequestTimeout = TimeoutDefault

\* C14: in every operation of the Client, a response body obtained from the
\* connection is closed exactly once by the time the operation has returned,
\* when parsing succeeded and when it failed, never more than once on the
\* way, and nothing is closed when the connection gave an error and no body.
C14_BodyClosedOnce ==
    /\ body.closes <= 1
    /\ (cpc = "done" /\ op \in Operations) =>
          /\ body.obtained => body.closes = 1
          /\ ret.err \in {NilError, ErrParse} => body.obtained /\ body.closes = 1
          /\ ~body.obtained => ret.err = ErrTransport /\ body.closes = 0

C14_Witness ==
    /\ cpc = "done" /\ op \in Operations
    /\ ret.err = ErrParse
    /\ body.obtained /\ body.closes = 1

\* C15: the endpoint buildRequestPath returns has apikey, datatype=csv and
\* outputsize=compact unless the parameters give the key; a key of the
\* parameters has the parameters' value, once; the query lists the keys in
\* lexicographic order whatever order they were set in; API key "test",
\* TIME_SERIES_DAILY and symbol "TEST" give the URL of the test.
C15_Defaults ==
    (queryApiKey :> apiKey) @@ (queryDataType :> valueJson)
        @@ (queryOutputSize :> valueCompact)

C15_EndpointBuilt ==
    op # "none" =>
      LET pairs == endpoint.RawQuery
          want == params @@ C15_Defaults
      IN  /\ endpoint.Path = pathQuery
          /\ { pairs[i].key : i \in DOMAIN pairs } = DOMAIN want
          /\ \A i \in DOMAIN pairs :
                pairs[i].value = QueryEscape(want[pairs[i].key])
          /\ \A k \in DOMAIN params : \A i \in DOMAIN pairs :
                pairs[i].key = k => pairs[i].value = QueryEscape(params[k])
          /\ \A i, j \in DOMAIN pairs :
                i < j => KeyRank[pairs[i].key] < KeyRank[pairs[j].key]
          /\ (/\ apiKey = "test"
              /\ params = (queryEndpoint :> "TIME_SERIES_DAILY")
                              @@ (querySymbol :> "TEST")) =>
                String(endpoint) =
                  "query?apikey=test&datatype=csv&function=TIME_SERIES_DAILY&outputsize=compact&symbol=TEST"

C15_Witness ==
    /\ op = "buildRequestPath"
    /\ queryDataType \in DOMAIN params
    /\ Len(order) >= 2
    /\ KeyRank[order[1]] > KeyRank[order[2]]
    /\ \E i \in DOMAIN endpoint.RawQuery :
          /\ endpoint.RawQuery[i].key = queryDataType
          /\ endpoint.RawQuery[i].value = "json"

\* The URL of the test is built, the symbol having been set before the
\* function.
C15_ExampleWitness ==
    /\ op = "StockTimeSeries"
    /\ apiKey = "test"
    /\ order = << querySymbol, queryEndpoint >>
    /\ String(endpoint) =
         "query?apikey=test&datatype=csv&function=TIME_SERIES_DAILY&outputsize=compact&symbol=TEST"

====
